---- MODULE Spec2Model ----
(***************************************************************************)
(* A model of threestudio/models/prompt.py: the PromptProcessor object,    *)
(* the steps of configure(), the prompt resolver preprocess_prompt and     *)
(* the per-call direction selection of __call__.                           *)
(*                                                                         *)
(* A Python str is a sequence of one-character strings, so that prefix     *)
(* tests, lower-casing, splitting and substring tests are computed.        *)
(* Angles are integer degrees; the comparisons keep their strictness.      *)
(***************************************************************************)
EXTENDS Integers, Sequences, FiniteSets, TLC

VARIABLES
  cfg,                      \* self.cfg: the Config dataclass
  libFile,                  \* content of load/prompt_library.json, or NoFile
  pc,                       \* position inside configure(), then "ready" / "failed"
  err,                      \* the exception that left configure(), or "none"
  encoder,                  \* the text encoder resource: "none", "held", "released"
  events,                   \* uses of the encoder, in order
  prompt_library,           \* self.prompt_library
  prompt,                   \* self.prompt
  negative_prompt,          \* self.negative_prompt
  text_embeddings,          \* self.text_embeddings        (1 row)
  uncond_text_embeddings,   \* self.uncond_text_embeddings (1 row)
  directions,               \* self.directions
  direction2idx,            \* self.direction2idx
  text_embeddings_vd,       \* self.text_embeddings_vd        (one row per direction)
  uncond_text_embeddings_vd,\* self.uncond_text_embeddings_vd (one row per direction)
  called,                   \* whether __call__ has returned at least once
  lastIn,                   \* the arguments of the last __call__
  lastIdx,                  \* direction_idx of the last __call__ (view-dependent mode)
  lastOut                   \* the tensor the last __call__ returned, as its rows

env      == <<cfg, libFile>>
resource == <<encoder, events>>
resolved == <<prompt_library, prompt, negative_prompt>>
base     == <<text_embeddings, uncond_text_embeddings>>
table    == <<directions, direction2idx>>
vdemb    == <<text_embeddings_vd, uncond_text_embeddings_vd>>
callvars == <<called, lastIn, lastIdx, lastOut>>
precomputed == <<base, table, vdemb>>
vars == <<env, pc, err, resource, resolved, base, table, vdemb, callvars>>

----------------------------------------------------------------------------
(* Bounds of the model. *)
MaxBatch == 2     \* largest batch size B passed to __call__
MaxLib == 3       \* largest number of entries of the "dreamfusion" list
MaxKeyLen == 3    \* longest text after "lib:" in the resolver's inputs

----------------------------------------------------------------------------
(* Python str operations *)

UpperCase == <<"A","B","C","D","E","F","G","H","I","J","K","L","M",
               "N","O","P","Q","R","S","T","U","V","W","X","Y","Z">>
LowerCase == <<"a","b","c","d","e","f","g","h","i","j","k","l","m",
               "n","o","p","q","r","s","t","u","v","w","x","y","z">>

\* str.lower() on one character
LowerChar(c) ==
  IF \E i \in 1..26 : UpperCase[i] = c
    THEN LowerCase[CHOOSE i \in 1..26 : UpperCase[i] = c]
    ELSE c

\* str.lower()
Lower(s) == [i \in 1..Len(s) |-> LowerChar(s[i])]

\* str.startswith(p)
StartsWith(s, p) == Len(s) >= Len(p) /\ SubSeq(s, 1, Len(p)) = p

\* k in s
Contains(s, k) ==
  \E i \in 0..(Len(s) - Len(k)) : SubSeq(s, i + 1, i + Len(k)) = k

\* str.split(sep) for a one-character separator: scans left to right, cutting a
\* piece at every separator; the piece after the last separator is kept even
\* when empty, so "".split("_") is [""].
RECURSIVE SplitFrom(_, _, _, _)
SplitFrom(s, sep, i, cur) ==
  IF i > Len(s) THEN <<cur>>
  ELSE IF s[i] = sep THEN <<cur>> \o SplitFrom(s, sep, i + 1, <<>>)
  ELSE SplitFrom(s, sep, i + 1, Append(cur, s[i]))

Split(s, sep) == SplitFrom(s, sep, 1, <<>>)

LibPrefix == <<"l","i","b",":">>
Space == <<" ">>

----------------------------------------------------------------------------
(* preprocess_prompt *)

Resolved(s)   == [ok |-> TRUE,  value |-> s,    error |-> "none"]
Raised(e)     == [ok |-> FALSE, value |-> <<>>, error |-> e]
MultipleMatch == "ValueError: Multiple prompts matched with keywords in library"
NoMatch       == "ValueError: Cannot find prompt with keywords in library"

\* all([k in prompt.lower() for k in keywords])
AllKeywordsIn(keywords, entry) ==
  \A j \in 1..Len(keywords) : Contains(Lower(entry), keywords[j])

\* The for loop over self.prompt_library["dreamfusion"], from entry i on, with
\* the loop's `candidate` (<<>> for None, <<e>> for the entry e).
RECURSIVE ScanLibrary(_, _, _, _)
ScanLibrary(library, keywords, i, candidate) ==
  IF i > Len(library)
    THEN IF candidate = <<>> THEN Raised(NoMatch) ELSE Resolved(candidate[1])
  ELSE IF AllKeywordsIn(keywords, library[i])
    THEN IF candidate # <<>>
           THEN Raised(MultipleMatch)
           ELSE ScanLibrary(library, keywords, i + 1, <<library[i]>>)
  ELSE ScanLibrary(library, keywords, i + 1, candidate)

\* Faulty variant: the keywords are not lower-cased
preprocess_prompt_case_sensitive(p, library) ==
  IF StartsWith(p, LibPrefix)
    THEN ScanLibrary(library, Split(SubSeq(p, 5, Len(p)), "_"), 1, <<>>)
    ELSE Resolved(p)

preprocess_prompt(p, library) ==
  IF StartsWith(p, LibPrefix)
    THEN ScanLibrary(library,
                     Split(Lower(SubSeq(p, 5, Len(p))), "_"), 1, <<>>)
    ELSE Resolved(p)

----------------------------------------------------------------------------
(* The text encoder: an external collaborator, a deterministic function of   *)
(* the string it is given.  It is left uninterpreted: an embedding records   *)
(* the string it encodes, so two rows are equal here only if their strings   *)
(* are, and every equality of rows found here holds for any encoder.         *)

text_encoder(s) == [embedding_of |-> s]

\* get_text_embeddings(prompt, negative_prompt): one row per string
get_text_embeddings(prompts, negative_prompts) ==
  << [i \in 1..Len(prompts) |-> text_encoder(prompts[i])],
     [i \in 1..Len(negative_prompts) |-> text_encoder(negative_prompts[i])] >>

----------------------------------------------------------------------------
(* The direction tables built by configure() *)

(* The prompt fragments of the two direction tables, as character sequences *)
SideViewOf ==  \* "side view of "
  <<"s","i","d","e"," ","v","i","e","w"," ","o","f"," ">>
FrontViewOf ==  \* "front view of "
  <<"f","r","o","n","t"," ","v","i","e","w"," ","o","f"," ">>
BacksideViewOf ==  \* "backside view of "
  <<"b","a","c","k","s","i","d","e"," ",
   "v","i","e","w"," ",
   "o","f"," ">>
OverheadViewOf ==  \* "overhead view of "
  <<"o","v","e","r","h","e","a","d"," ",
   "v","i","e","w"," ",
   "o","f"," ">>
CommaSideView ==  \* ", side view"
  <<","," ","s","i","d","e"," ","v","i","e","w">>
CommaFrontView ==  \* ", front view"
  <<","," ","f","r","o","n","t"," ","v","i","e","w">>
CommaBackView ==  \* ", back view"
  <<","," ","b","a","c","k"," ","v","i","e","w">>
CommaOverheadView ==  \* ", overhead view"
  <<","," ","o","v","e","r","h","e","a","d"," ","v","i","e","w">>


DirectionConfig(n, p, np) == [name |-> n, prompt |-> p, negative_prompt |-> np]

\* view_dependent_prompt_front = True
DirectionsFront ==
  << DirectionConfig("side",     SideViewOf, <<>>),
     DirectionConfig("front",    FrontViewOf, <<>>),
     DirectionConfig("back",     BacksideViewOf, <<>>),
     DirectionConfig("overhead", OverheadViewOf, <<>>) >>

\* view_dependent_prompt_front = False
DirectionsSuffix ==
  << DirectionConfig("side",     CommaSideView, <<>>),
     DirectionConfig("front",    CommaFrontView, <<>>),
     DirectionConfig("back",     CommaBackView, <<>>),
     DirectionConfig("overhead", CommaOverheadView, <<>>) >>

\* {d.name: i for i, d in enumerate(self.directions)}
Direction2Idx(ds) ==
  [n \in {ds[i].name : i \in 1..Len(ds)} |->
     (CHOOSE i \in 1..Len(ds) :
        ds[i].name = n /\ \A j \in (i + 1)..Len(ds) : ds[j].name # n) - 1]

\* The strings of the view-dependent get_text_embeddings call.  The front-aware
\* branch formats self.cfg.prompt and self.cfg.negative_prompt, the other
\* branch self.prompt and self.negative_prompt.
FrontPrompts(c) ==
  [i \in 1..Len(DirectionsFront) |->
     DirectionsFront[i].prompt \o Space \o c.prompt \o Space]
FrontNegativePrompts(c) ==
  [i \in 1..Len(DirectionsFront) |->
     DirectionsFront[i].negative_prompt \o Space \o c.negative_prompt]
SuffixPrompts(p) ==
  [i \in 1..Len(DirectionsSuffix) |->
     p \o Space \o DirectionsSuffix[i].prompt]
SuffixNegativePrompts(np) ==
  [i \in 1..Len(DirectionsSuffix) |->
     np \o Space \o DirectionsSuffix[i].negative_prompt]

----------------------------------------------------------------------------
(* __call__ *)

\* Faulty variant: the thresholds themselves count as inside (>=, <=)
conditionInclusive(name, ele, azi, dis) ==
  CASE name = "side"     -> TRUE
    [] name = "front"    -> (azi >= -cfg.front_threshold)
                            /\ (azi <= cfg.front_threshold)
    [] name = "back"     -> (azi >= 180 - cfg.back_threshold)
                            \/ (azi <= -180 + cfg.back_threshold)
    [] name = "overhead" -> ele >= cfg.overhead_threshold

\* d.condition(ele, azi, dis) for one sample; the lambdas read self.cfg
condition(name, ele, azi, dis) ==
  CASE name = "side"     -> TRUE
    [] name = "front"    -> (azi > -cfg.front_threshold)
                            /\ (azi < cfg.front_threshold)
    [] name = "back"     -> (azi > 180 - cfg.back_threshold)
                            \/ (azi < -180 + cfg.back_threshold)
    [] name = "overhead" -> ele > cfg.overhead_threshold

\* Faulty variant: a sample keeps the first direction that matched instead of the last
MaskedAssignFirstWins(direction_idx, d, elevation, azimuth, camera_distances) ==
  [i \in 1..Len(direction_idx) |->
     IF direction_idx[i] = 0
        /\ condition(d.name, elevation[i], azimuth[i], camera_distances[i])
       THEN direction2idx[d.name]
       ELSE direction_idx[i]]

\* One pass of `for d in self.directions`: the masked assignment
\* direction_idx[d.condition(...)] = self.direction2idx[d.name]
MaskedAssign(direction_idx, d, elevation, azimuth, camera_distances) ==
  [i \in 1..Len(direction_idx) |->
     IF condition(d.name, elevation[i], azimuth[i], camera_distances[i])
       THEN direction2idx[d.name]
       ELSE direction_idx[i]]

\* The loop over self.directions from table position k on
RECURSIVE DirectionLoop(_, _, _, _, _)
DirectionLoop(k, direction_idx, elevation, azimuth, camera_distances) ==
  IF k > Len(directions) THEN direction_idx
  ELSE DirectionLoop(k + 1,
         MaskedAssign(direction_idx, directions[k],
                      elevation, azimuth, camera_distances),
         elevation, azimuth, camera_distances)

\* direction_idx = torch.zeros_like(elevation); for d in self.directions: ...
DirectionIdx(elevation, azimuth, camera_distances) ==
  DirectionLoop(1, [i \in 1..Len(elevation) |-> 0],
                elevation, azimuth, camera_distances)

\* tensor[direction_idx]: gather rows by (0-based) index
Gather(tensor, direction_idx) ==
  [i \in 1..Len(direction_idx) |-> tensor[direction_idx[i] + 1]]

\* tensor.expand(batch_size, -1, -1) of a one-row tensor
Expand(tensor, batch_size) == [i \in 1..batch_size |-> tensor[1]]

\* Faulty variant: the blocks concatenated in the order of other implementations
CatUncondFirst(cond_rows, uncond_rows) == uncond_rows \o cond_rows

\* torch.cat([text_embeddings, uncond_text_embeddings], dim=0)
Cat(cond_rows, uncond_rows) == cond_rows \o uncond_rows

\* Faulty variant: the view_dependent_prompting flag is not consulted
CallOutputAlwaysViewDependent(elevation, azimuth, camera_distances) ==
  LET direction_idx == DirectionIdx(elevation, azimuth, camera_distances)
  IN Cat(Gather(text_embeddings_vd, direction_idx),
         Gather(uncond_text_embeddings_vd, direction_idx))

\* The value __call__ returns
CallOutput(elevation, azimuth, camera_distances) ==
  LET batch_size == Len(elevation) IN
  IF cfg.view_dependent_prompting
    THEN LET direction_idx == DirectionIdx(elevation, azimuth, camera_distances)
         IN Cat(Gather(text_embeddings_vd, direction_idx),
                Gather(uncond_text_embeddings_vd, direction_idx))
    ELSE Cat(Expand(text_embeddings, batch_size),
             Expand(uncond_text_embeddings, batch_size))

----------------------------------------------------------------------------
(* State machine: configure() step by step, then __call__ *)

\* load/prompt_library.json: a JSON object with the list "dreamfusion", or a
\* file that cannot be opened.
LibraryFile(entries) == [exists |-> TRUE, content |-> [dreamfusion |-> entries]]
NoFile == [exists |-> FALSE, content |-> [dreamfusion |-> <<>>]]

Config(p, np, vd, front, ot, ft, bt) ==
  [prompt |-> p, negative_prompt |-> np,
   view_dependent_prompting |-> vd, view_dependent_prompt_front |-> front,
   overhead_threshold |-> ot, front_threshold |-> ft, back_threshold |-> bt]

EncoderEvent(op, prompts, negative_prompts) ==
  [op |-> op, prompts |-> prompts, negative_prompts |-> negative_prompts]

\* The object on entry to configure(): no attribute is set yet (an unset
\* attribute is modelled by an empty value).
InitOver(configs, libFiles) ==
  /\ cfg \in configs
  /\ libFile \in libFiles
  /\ pc = "configure_text_encoder"
  /\ err = "none"
  /\ encoder = "none"
  /\ events = <<>>
  /\ prompt_library = [dreamfusion |-> <<>>]
  /\ prompt = <<>>
  /\ negative_prompt = <<>>
  /\ text_embeddings = <<>>
  /\ uncond_text_embeddings = <<>>
  /\ directions = <<>>
  /\ direction2idx = <<>>
  /\ text_embeddings_vd = <<>>
  /\ uncond_text_embeddings_vd = <<>>
  /\ called = FALSE
  /\ lastIn = <<>>
  /\ lastIdx = <<>>
  /\ lastOut = <<>>

\* An exception leaves configure(): nothing catches it, nothing else runs.
Raise(e) ==
  /\ pc' = "failed"
  /\ err' = e
  /\ UNCHANGED <<env, resource, resolved, base, table, vdemb, callvars>>

\* self.configure_text_encoder()
ConfigureTextEncoder ==
  /\ pc = "configure_text_encoder"
  /\ encoder' = "held"
  /\ events' = Append(events, EncoderEvent("acquire", <<>>, <<>>))
  /\ pc' = "load_library"
  /\ UNCHANGED <<env, err, resolved, base, table, vdemb, callvars>>

\* from_pretrained raises: the encoder was never acquired
ConfigureTextEncoderFail ==
  /\ pc = "configure_text_encoder"
  /\ Raise("EncoderLoadError")

\* with open("load/prompt_library.json") as f: self.prompt_library = json.load(f)
LoadLibrary ==
  /\ pc = "load_library"
  /\ libFile.exists
  /\ prompt_library' = libFile.content
  /\ pc' = "resolve"
  /\ UNCHANGED <<env, err, resource, prompt, negative_prompt, base, table,
                 vdemb, callvars>>

LoadLibraryFail ==
  /\ pc = "load_library"
  /\ ~libFile.exists
  /\ Raise("FileNotFoundError")

\* Faulty variant: the negative prompt goes through the resolver too
ResolvePromptAndNegative ==
  /\ pc = "resolve"
  /\ preprocess_prompt(cfg.prompt, prompt_library.dreamfusion).ok
  /\ preprocess_prompt(cfg.negative_prompt, prompt_library.dreamfusion).ok
  /\ prompt' = preprocess_prompt(cfg.prompt, prompt_library.dreamfusion).value
  /\ negative_prompt' =
       preprocess_prompt(cfg.negative_prompt, prompt_library.dreamfusion).value
  /\ pc' = "base_embeddings"
  /\ UNCHANGED <<env, err, resource, prompt_library, base, table, vdemb,
                 callvars>>

\* self.prompt = self.preprocess_prompt(self.cfg.prompt)
\* self.negative_prompt = self.cfg.negative_prompt
ResolvePrompt ==
  /\ pc = "resolve"
  /\ preprocess_prompt(cfg.prompt, prompt_library.dreamfusion).ok
  /\ prompt' = preprocess_prompt(cfg.prompt, prompt_library.dreamfusion).value
  /\ negative_prompt' = cfg.negative_prompt
  /\ pc' = "base_embeddings"
  /\ UNCHANGED <<env, err, resource, prompt_library, base, table, vdemb,
                 callvars>>

\* Faulty variant: the encoder is released when the lookup fails (a guarded release)
ResolvePromptFailReleasing ==
  /\ pc = "resolve"
  /\ ~preprocess_prompt(cfg.prompt, prompt_library.dreamfusion).ok
  /\ pc' = "failed"
  /\ err' = preprocess_prompt(cfg.prompt, prompt_library.dreamfusion).error
  /\ encoder' = "released"
  /\ events' = Append(events, EncoderEvent("release", <<>>, <<>>))
  /\ UNCHANGED <<env, resolved, base, table, vdemb, callvars>>

ResolvePromptFail ==
  /\ pc = "resolve"
  /\ ~preprocess_prompt(cfg.prompt, prompt_library.dreamfusion).ok
  /\ Raise(preprocess_prompt(cfg.prompt, prompt_library.dreamfusion).error)

\* What a failing get_text_embeddings raises: without tokenizer and encoder
\* attributes an AttributeError, otherwise the encoder's own error.
EncodeError == IF encoder = "held" THEN "EncoderError" ELSE "AttributeError"

\* self.text_embeddings, self.uncond_text_embeddings =
\*     self.get_text_embeddings([self.prompt], [self.negative_prompt])
BaseEmbeddings ==
  /\ pc = "base_embeddings"
  /\ encoder = "held"
  /\ events' = Append(events,
                      EncoderEvent("encode", <<prompt>>, <<negative_prompt>>))
  /\ text_embeddings' =
       get_text_embeddings(<<prompt>>, <<negative_prompt>>)[1]
  /\ uncond_text_embeddings' =
       get_text_embeddings(<<prompt>>, <<negative_prompt>>)[2]
  /\ pc' = "direction_embeddings"
  /\ UNCHANGED <<env, err, encoder, resolved, table, vdemb, callvars>>

BaseEmbeddingsFail ==
  /\ pc = "base_embeddings"
  /\ Raise(EncodeError)

\* The strings the branch taken passes to get_text_embeddings
DirectionPrompts ==
  IF cfg.view_dependent_prompt_front
    THEN FrontPrompts(cfg) ELSE SuffixPrompts(prompt)
DirectionNegativePrompts ==
  IF cfg.view_dependent_prompt_front
    THEN FrontNegativePrompts(cfg) ELSE SuffixNegativePrompts(negative_prompt)

\* if self.cfg.view_dependent_prompt_front: ... else: ...
DirectionEmbeddings ==
  /\ pc = "direction_embeddings"
  /\ encoder = "held"
  /\ directions' = IF cfg.view_dependent_prompt_front
                     THEN DirectionsFront ELSE DirectionsSuffix
  /\ direction2idx' = Direction2Idx(directions')
  /\ events' = Append(events,
       EncoderEvent("encode", DirectionPrompts, DirectionNegativePrompts))
  /\ text_embeddings_vd' =
       get_text_embeddings(DirectionPrompts, DirectionNegativePrompts)[1]
  /\ uncond_text_embeddings_vd' =
       get_text_embeddings(DirectionPrompts, DirectionNegativePrompts)[2]
  /\ pc' = "destroy_text_encoder"
  /\ UNCHANGED <<env, err, encoder, resolved, base, callvars>>

DirectionEmbeddingsFail ==
  /\ pc = "direction_embeddings"
  /\ Raise(EncodeError)

\* Faulty variant: configure() returns without destroying the text encoder
DestroyTextEncoderSkipped ==
  /\ pc = "destroy_text_encoder"
  /\ pc' = "ready"
  /\ UNCHANGED <<env, err, resource, resolved, base, table, vdemb, callvars>>

\* self.destroy_text_encoder(); configure() returns
DestroyTextEncoder ==
  /\ pc = "destroy_text_encoder"
  /\ encoder' = "released"
  /\ events' = Append(events, EncoderEvent("release", <<>>, <<>>))
  /\ pc' = "ready"
  /\ UNCHANGED <<env, err, resolved, base, table, vdemb, callvars>>

Configure ==
  \/ ConfigureTextEncoder
  \/ ConfigureTextEncoderFail
  \/ LoadLibrary
  \/ LoadLibraryFail
  \/ ResolvePrompt
  \/ ResolvePromptFail
  \/ BaseEmbeddings
  \/ BaseEmbeddingsFail
  \/ DirectionEmbeddings
  \/ DirectionEmbeddingsFail
  \/ DestroyTextEncoder

\* A batch is a sequence of samples; the three arguments are its columns.
Sample(ele, azi, dis) == [ele |-> ele, azi |-> azi, dis |-> dis]
Elevation(batch) == [i \in 1..Len(batch) |-> batch[i].ele]
Azimuth(batch) == [i \in 1..Len(batch) |-> batch[i].azi]
CameraDistances(batch) == [i \in 1..Len(batch) |-> batch[i].dis]

\* Faulty variant: the expanded base embeddings are stored back into the object
CallOnStoringExpanded(batches) ==
  /\ pc = "ready"
  /\ \E batch \in batches :
       /\ lastIn' = batch
       /\ lastIdx' = IF cfg.view_dependent_prompting
                       THEN DirectionIdx(Elevation(batch), Azimuth(batch),
                                         CameraDistances(batch))
                       ELSE <<>>
       /\ lastOut' = CallOutput(Elevation(batch), Azimuth(batch),
                                CameraDistances(batch))
       /\ text_embeddings' = Expand(text_embeddings, Len(batch))
       /\ uncond_text_embeddings' = Expand(uncond_text_embeddings, Len(batch))
  /\ called' = TRUE
  /\ UNCHANGED <<env, pc, err, resource, resolved, table, vdemb>>

\* __call__(elevation, azimuth, camera_distances) on some batch of `batches`
CallOn(batches) ==
  /\ pc = "ready"
  /\ \E batch \in batches :
       /\ lastIn' = batch
       /\ lastIdx' = IF cfg.view_dependent_prompting
                       THEN DirectionIdx(Elevation(batch), Azimuth(batch),
                                         CameraDistances(batch))
                       ELSE <<>>
       /\ lastOut' = CallOutput(Elevation(batch), Azimuth(batch),
                                CameraDistances(batch))
  /\ called' = TRUE
  /\ UNCHANGED <<env, pc, err, resource, resolved, base, table, vdemb>>

\* All sequences over S of length lo..hi
SeqsOf(S, lo, hi) == UNION {[1..n -> S] : n \in lo..hi}

----------------------------------------------------------------------------
(* Specification of the object's life: configure(), then calls *)

PromptA == <<"a">>
NegativeU == <<"u">>
LibA == LibPrefix \o <<"a">>
LibC == LibPrefix \o <<"c">>
CapitalLibA == <<"L","i","b",":","a">>

EntryB == <<"B">>
EntryAb == <<"A","b">>
EntryBA == <<"B","A">>
EntryC == <<"c">>

Configs ==
  { Config(p, np, vd, front, 60, t, t) :
      p \in {PromptA, LibA, LibC, CapitalLibA},
      np \in {<<>>, NegativeU, LibC},
      vd \in BOOLEAN, front \in BOOLEAN,
      t \in {45, 100} }

LibFiles ==
  {NoFile, LibraryFile(<<EntryAb, EntryC>>), LibraryFile(<<EntryAb, EntryBA>>)}

Samples ==
  { Sample(0, 0, 1), Sample(0, 170, 1), Sample(70, 0, 2), Sample(0, 90, 1) }

Batches == SeqsOf(Samples, 1, MaxBatch)

Init == InitOver(Configs, LibFiles)
Next == Configure \/ CallOn(Batches)
Spec == Init /\ [][Next]_vars

----------------------------------------------------------------------------
(* Specification for the direction selection: many thresholds and poses *)

FrontThresholds == {-10, 0, 45, 100, 180}
BackThresholds == {0, 45, 100, 190}
OverheadThresholds == {-100, 0, 60, 90}

DirectionConfigs ==
  { Config(PromptA, NegativeU, TRUE, front, ot, ft, bt) :
      front \in BOOLEAN, ot \in OverheadThresholds,
      ft \in FrontThresholds, bt \in BackThresholds }
  \cup { Config(LibA, NegativeU, TRUE, FALSE, 60, 45, 45) }

DirectionLibFiles == {NoFile, LibraryFile(<<EntryAb, EntryBA>>)}

GridAzimuths ==
  { -180, -170, -136, -135, -134, -100, -90, -81, -80, -46, -45, -44, 0,
    44, 45, 46, 80, 81, 90, 100, 134, 135, 136, 170, 180 }
GridElevations == { -90, 0, 59, 60, 61, 70, 90 }

\* every single pose of the grid, and every longer batch over a few poses
DirectionBatches ==
  { <<Sample(e, a, 1)>> : e \in GridElevations, a \in GridAzimuths }
  \cup SeqsOf({ Sample(0, 0, 1), Sample(0, 170, 1), Sample(70, 0, 2),
                Sample(0, 90, 1), Sample(60, 45, 1), Sample(61, -135, 1) },
              2, MaxBatch)

InitDirections == InitOver(DirectionConfigs, DirectionLibFiles)
\* One call per behaviour: __call__ reads the precomputed state and its
\* arguments only, so the first call shows every result a later one can have.
FirstCall(batches) == ~called /\ CallOn(batches)
NextDirections == Configure \/ FirstCall(DirectionBatches)
SpecDirections == InitDirections /\ [][NextDirections]_vars

----------------------------------------------------------------------------
(* Specification for the prompt resolver: many prompts and libraries *)

QueryChars == {"a", "B", "_"}
LibraryEntries == {<<>>, EntryB, EntryAb, EntryBA, EntryC}

ResolverPrompts ==
  { LibPrefix \o q : q \in SeqsOf(QueryChars, 0, MaxKeyLen) }
  \cup { PromptA, CapitalLibA, <<"l","i","b">>, <<"l","i","b","_","a">>,
         <<" ">> \o LibA, <<>> }

ResolverConfigs ==
  { Config(p, <<>>, FALSE, FALSE, 60, 45, 45) : p \in ResolverPrompts }

ResolverLibFiles ==
  {NoFile} \cup { LibraryFile(l) : l \in SeqsOf(LibraryEntries, 0, MaxLib) }

InitResolver == InitOver(ResolverConfigs, ResolverLibFiles)
NextResolver == Configure
SpecResolver == InitResolver /\ [][NextResolver]_vars

----------------------------------------------------------------------------
(* Vocabulary of the claims *)

Ops(evs) == [i \in 1..Len(evs) |-> evs[i].op]
FullEncoderUse == <<"acquire", "encode", "encode", "release">>
IsPrefixOf(s, t) == Len(s) <= Len(t) /\ SubSeq(t, 1, Len(s)) = s

\* configure() got past the resolving of the prompts
ResolveDone ==
  \/ pc \in {"base_embeddings", "direction_embeddings",
             "destroy_text_encoder", "ready"}
  \/ pc = "failed" /\ err \in {"EncoderError", "AttributeError"}

\* configure() got past the per-direction embeddings
DirectionsDone == pc \in {"destroy_text_encoder", "ready"}

\* The conditions of section 4.2, stated on one sample
FrontHolds(s) == -cfg.front_threshold < s.azi /\ s.azi < cfg.front_threshold
BackHolds(s) ==
  s.azi > 180 - cfg.back_threshold \/ s.azi < -180 + cfg.back_threshold
OverheadHolds(s) == s.ele > cfg.overhead_threshold

\* The last direction of side(0), front(1), back(2), overhead(3) that holds
LastHolding(s) ==
  IF OverheadHolds(s) THEN 3
  ELSE IF BackHolds(s) THEN 2
  ELSE IF FrontHolds(s) THEN 1
  ELSE 0

TableOrder == <<"side", "front", "back", "overhead">>
DefaultThresholds ==
  cfg.front_threshold = 45 /\ cfg.back_threshold = 45
  /\ cfg.overhead_threshold = 60

----------------------------------------------------------------------------
\* C1: for every batch size B >= 1 and in both modes, __call__ returns exactly
\* 2B rows: rows 0..B-1 are the conditional embeddings of samples 0..B-1 in
\* sample order, rows B..2B-1 the unconditional embeddings of the same samples
\* in the same order (the conditional block first).
C1_CondThenUncond ==
  called =>
    LET B == Len(lastIn) IN
    /\ B >= 1
    /\ Len(lastOut) = 2 * B
    /\ \A i \in 1..B :
         IF cfg.view_dependent_prompting
           THEN /\ lastOut[i] = text_embeddings_vd[LastHolding(lastIn[i]) + 1]
                /\ lastOut[B + i] =
                     uncond_text_embeddings_vd[LastHolding(lastIn[i]) + 1]
           ELSE /\ lastOut[i] = text_embeddings[1]
                /\ lastOut[B + i] = uncond_text_embeddings[1]

\* a call with two samples of different directions, whose conditional and
\* unconditional rows differ
C1_Witness ==
  /\ called
  /\ cfg.view_dependent_prompting
  /\ Len(lastIn) = 2
  /\ LastHolding(lastIn[1]) # LastHolding(lastIn[2])
  /\ lastOut[1] # lastOut[3]
  /\ lastOut[1] # lastOut[2]

\* C2: with view-dependent prompting the direction index of every sample is
\* the index of the last direction, in the order side, front, back, overhead,
\* whose condition holds (strict comparisons), each sample on its own; with
\* thresholds 45/45/60 the poses (azimuth 0, elevation 0), (170, 0), (0, 70)
\* and (90, 0) get front, back, overhead and side.
C2_LastMatchWins ==
  (called /\ cfg.view_dependent_prompting) =>
    /\ Len(lastIdx) = Len(lastIn)
    /\ [i \in 1..Len(directions) |-> directions[i].name] = TableOrder
    /\ \A i \in 1..Len(lastIn) :
         /\ lastIdx[i] = LastHolding(lastIn[i])
         /\ OverheadHolds(lastIn[i]) => lastIdx[i] = direction2idx["overhead"]
         /\ (FrontHolds(lastIn[i]) /\ BackHolds(lastIn[i])
               /\ ~OverheadHolds(lastIn[i]))
              => lastIdx[i] = direction2idx["back"]
         /\ DefaultThresholds =>
              /\ (lastIn[i].azi = 0 /\ lastIn[i].ele = 0)
                   => lastIdx[i] = direction2idx["front"]
              /\ (lastIn[i].azi = 170 /\ lastIn[i].ele = 0)
                   => lastIdx[i] = direction2idx["back"]
              /\ (lastIn[i].azi = 0 /\ lastIn[i].ele = 70)
                   => lastIdx[i] = direction2idx["overhead"]
              /\ (lastIn[i].azi = 90 /\ lastIn[i].ele = 0)
                   => lastIdx[i] = direction2idx["side"]

\* a call on a pose exactly on the front threshold, which therefore is side
C2_Witness ==
  /\ called
  /\ cfg.view_dependent_prompting
  /\ DefaultThresholds
  /\ Len(lastIn) = 1
  /\ lastIn[1].azi = 45
  /\ lastIn[1].ele = 60
  /\ lastIdx = <<0>>

\* C3 as stated: with view-dependent prompting, for every value of the three
\* thresholds, every sample whose azimuth is strictly within
\* (-front_threshold, front_threshold) and whose elevation is at most
\* overhead_threshold gets the index of front (1).
C3_FrontAsStated ==
  (called /\ cfg.view_dependent_prompting) =>
    \A i \in 1..Len(lastIn) :
      (FrontHolds(lastIn[i]) /\ lastIn[i].ele <= cfg.overhead_threshold)
        => lastIdx[i] = 1

\* C3 as amended: such a sample gets the index of front (1) when its azimuth
\* does not also satisfy the back condition, and the index of back (2) when
\* it does.
C3_FrontUnlessBack ==
  (called /\ cfg.view_dependent_prompting) =>
    \A i \in 1..Len(lastIn) :
      (FrontHolds(lastIn[i]) /\ lastIn[i].ele <= cfg.overhead_threshold)
        => lastIdx[i] = IF BackHolds(lastIn[i]) THEN 2 ELSE 1

\* a front sample, not back, under thresholds whose front and back regions
\* overlap elsewhere
C3_Witness ==
  /\ called
  /\ cfg.view_dependent_prompting
  /\ cfg.front_threshold + cfg.back_threshold > 180
  /\ Len(lastIn) = 1
  /\ FrontHolds(lastIn[1])
  /\ ~BackHolds(lastIn[1])
  /\ lastIn[1].ele = cfg.overhead_threshold
  /\ lastIdx = <<1>>

\* The entries of the library every keyword of prompt p is a substring of
KeywordsOf(p) == Split(Lower(SubSeq(p, 5, Len(p))), "_")
MatchingEntries(p, library) ==
  { i \in 1..Len(library) :
      \A j \in 1..Len(KeywordsOf(p)) :
        Contains(Lower(library[i]), KeywordsOf(p)[j]) }
HasLibPrefix(p) ==
  Len(p) >= 4 /\ p[1] = "l" /\ p[2] = "i" /\ p[3] = "b" /\ p[4] = ":"

\* C4: preprocess_prompt returns a prompt without the case-sensitive prefix
\* lib: unchanged; otherwise the text after the prefix is lower-cased and split
\* on _ into keywords, an entry matches iff every keyword (an empty one too) is
\* a substring of the lower-cased entry, and the result is the one matching
\* entry in its own casing, a not-found error for no match and an ambiguity
\* error for two or more.  The library is not changed.
C4_Resolver ==
  LET library == libFile.content.dreamfusion
      matches == MatchingEntries(cfg.prompt, library)
  IN
  /\ pc \notin {"configure_text_encoder", "load_library"}
       /\ ~(pc = "failed" /\ err \in {"EncoderLoadError", "FileNotFoundError"})
       => prompt_library = libFile.content
  /\ ResolveDone =>
       IF HasLibPrefix(cfg.prompt)
         THEN /\ Cardinality(matches) = 1
              /\ \A i \in matches : prompt = library[i]
         ELSE prompt = cfg.prompt
  /\ (pc = "failed" /\ err = NoMatch) =>
       HasLibPrefix(cfg.prompt) /\ matches = {}
  /\ (pc = "failed" /\ err = MultipleMatch) =>
       HasLibPrefix(cfg.prompt) /\ Cardinality(matches) >= 2

\* a query of two keywords in mixed case resolved to the single entry, of
\* another casing, that holds both
C4_Witness ==
  /\ ResolveDone
  /\ cfg.prompt = LibPrefix \o <<"B", "_", "a">>
  /\ Len(libFile.content.dreamfusion) = 2
  /\ prompt = EntryAb
  /\ prompt # Lower(prompt)

\* C5: with view-dependent prompting disabled, for every batch size and every
\* pose, all B conditional rows equal the base conditional embedding computed
\* at configure from the resolved prompt and all B unconditional rows equal
\* the base unconditional embedding.
C5_Broadcast ==
  (called /\ ~cfg.view_dependent_prompting) =>
    /\ Len(text_embeddings) = 1
    /\ Len(uncond_text_embeddings) = 1
    /\ text_embeddings[1] = text_encoder(prompt)
    /\ uncond_text_embeddings[1] = text_encoder(negative_prompt)
    /\ \A i \in 1..Len(lastIn) :
         /\ lastOut[i] = text_embeddings[1]
         /\ lastOut[Len(lastIn) + i] = uncond_text_embeddings[1]

\* a call without view-dependent prompting on two poses of different
\* directions, after a library lookup
C5_Witness ==
  /\ called
  /\ ~cfg.view_dependent_prompting
  /\ Len(lastIn) = 2
  /\ LastHolding(lastIn[1]) # LastHolding(lastIn[2])
  /\ prompt # cfg.prompt
  /\ lastOut[1] = lastOut[2]

\* C6: in a successful configure() the encoder is acquired once, first; the
\* two embedding computations happen while it is held; it is released once,
\* last; only then is the processor ready; and no __call__ acquires or uses
\* the encoder afterwards.
C6_EncoderLifecycle ==
  /\ IsPrefixOf(Ops(events), FullEncoderUse)
  /\ (pc = "ready") <=> (Ops(events) = FullEncoderUse)
  /\ (encoder = "held") <=> (Len(events) \in 1..3)
  /\ (encoder = "released") <=> (Len(events) = 4)
  /\ called => (pc = "ready" /\ encoder = "released")
  /\ Len(events) >= 2 =>
       /\ Len(events[2].prompts) = 1
       /\ text_embeddings = <<text_encoder(events[2].prompts[1])>>
  /\ Len(events) >= 3 =>
       /\ Len(events[3].prompts) = 4
       /\ text_embeddings_vd =
            [i \in 1..4 |-> text_encoder(events[3].prompts[i])]

\* the processor after a call
C6_Witness ==
  /\ called
  /\ pc = "ready"
  /\ encoder = "released"
  /\ Len(lastIn) = 2

\* C7: __call__ leaves the base embeddings, the per-direction tables, the
\* direction table and direction2idx as they were, and a call with the
\* arguments of the call before returns what that call returned.
C7_CallIsPure ==
  [][pc = "ready" =>
       /\ UNCHANGED <<precomputed, resolved, resource, env>>
       /\ (called /\ lastIn' = lastIn) => lastOut' = lastOut]_vars

\* a call has returned, on two different poses, with the tables in place
C7_Witness ==
  /\ called
  /\ cfg.view_dependent_prompting
  /\ Len(lastIn) = 2
  /\ lastIn[1] # lastIn[2]
  /\ Len(text_embeddings_vd) = 4

\* C8: when a step of configure() after the acquisition of the encoder fails
\* (library load, a lib: prompt matching no or several entries, an embedding
\* computation), the error reaches the caller as raised, the encoder is not
\* released and stays acquired, nothing is retried and the processor never
\* becomes ready.
C8_FailureKeepsEncoder ==
  /\ [](/\ (pc = "failed") <=> (err # "none")
        /\ (pc = "failed" /\ err # "EncoderLoadError") =>
             /\ encoder = "held"
             /\ Ops(events) \in {<<"acquire">>, <<"acquire", "encode">>}
             /\ ~called
             /\ err \in {"FileNotFoundError", NoMatch, MultipleMatch,
                         "EncoderError"}
             /\ (err = "FileNotFoundError") => ~libFile.exists
             /\ (err \in {NoMatch, MultipleMatch}) =>
                  /\ HasLibPrefix(cfg.prompt)
                  /\ Cardinality(MatchingEntries(cfg.prompt,
                        libFile.content.dreamfusion)) # 1
                  /\ Len(events) = 1)
  /\ [][pc = "failed" =>
          (pc' = "failed" /\ err' = err /\ UNCHANGED resource)]_vars

\* configure() failed on an ambiguous library lookup, the encoder still held
C8_Witness ==
  /\ pc = "failed"
  /\ err = MultipleMatch
  /\ encoder = "held"
  /\ Ops(events) = <<"acquire">>

\* C9: in both direction tables the strings encoded per direction are built
\* from the resolved prompt self.prompt: "{fragment} {prompt} " in front-aware
\* mode, "{prompt} {fragment}" otherwise; row i of the per-direction table is
\* the encoding of the string of direction i.
C9_DirectionPromptsFromResolved ==
  DirectionsDone =>
    /\ Len(text_embeddings_vd) = Len(directions)
    /\ \A i \in 1..Len(directions) :
         LET expected ==
               IF cfg.view_dependent_prompt_front
                 THEN directions[i].prompt \o <<" ">> \o prompt \o <<" ">>
                 ELSE prompt \o <<" ">> \o directions[i].prompt
         IN /\ events[3].prompts[i] = expected
            /\ text_embeddings_vd[i] = text_encoder(expected)

\* C10 as stated: configure() resolves the negative prompt through the
\* resolver as it does the prompt: a negative prompt starting with lib: is
\* replaced by its one library match, another one is used unchanged.
C10_NegativeResolvedAsStated ==
  ResolveDone =>
    /\ preprocess_prompt(cfg.negative_prompt, prompt_library.dreamfusion).ok
    /\ negative_prompt =
         preprocess_prompt(cfg.negative_prompt,
                           prompt_library.dreamfusion).value

\* C10 as amended: configure() resolves only the prompt through the resolver;
\* the negative prompt is used as configured, also when it starts with lib:,
\* and the base embeddings are those of the resolved prompt and the
\* configured negative prompt.
C10_NegativeUsedAsConfigured ==
  /\ ResolveDone =>
       /\ prompt =
            preprocess_prompt(cfg.prompt, libFile.content.dreamfusion).value
       /\ negative_prompt = cfg.negative_prompt
  /\ (pc = "failed" /\ err \in {NoMatch, MultipleMatch}) =>
       ~preprocess_prompt(cfg.prompt, libFile.content.dreamfusion).ok
  /\ Len(events) >= 2 =>
       /\ events[2].prompts = <<prompt>>
       /\ events[2].negative_prompts = <<cfg.negative_prompt>>
  /\ pc \in {"direction_embeddings", "destroy_text_encoder", "ready"} =>
       /\ text_embeddings = <<text_encoder(prompt)>>
       /\ uncond_text_embeddings = <<text_encoder(cfg.negative_prompt)>>

\* a processor made ready with a negative prompt that names a library entry
C10_Witness ==
  /\ pc = "ready"
  /\ HasLibPrefix(cfg.negative_prompt)
  /\ preprocess_prompt(cfg.negative_prompt, prompt_library.dreamfusion).ok
  /\ negative_prompt = cfg.negative_prompt

====
